---- MODULE Spec2Model ----
(***************************************************************************)
(* ProductRankingSystem (dev/recommendation-engine/ranking_system.py).     *)
(*                                                                         *)
(* Timestamps are whole days since an epoch.  Python floats are modelled   *)
(* as exact rationals <<numerator, denominator>> in lowest terms with a    *)
(* positive denominator, so IEEE rounding is not part of the model.        *)
(* None is the empty sequence <<>> and a given argument v is <<v>>.        *)
(***************************************************************************)
EXTENDS Integers, Sequences, FiniteSets, TLC

VARIABLES
    products_df,      \* self.products_df: sequence of product rows
    orders_df,        \* self.orders_df: sequence of order lines
    weights,          \* self.weights
    config,           \* self.config
    ranking_scores,   \* self.ranking_scores: product id -> entry
    clock,            \* the wall clock datetime.now(timezone.utc) reads
    last              \* the last call: its name, arguments, clock reads, outcome

vars == <<products_df, orders_df, weights, config, ranking_scores, clock, last>>

-----------------------------------------------------------------------------
(* Bounds of the model *)

\* the clock is not advanced past ClockStart + MaxClockAdvance
MaxClockAdvance == 1
\* the largest amount update_weights raises low_stock by in one call
MaxDelta == 1
\* low_stock is not raised beyond the default plus this
MaxRaise == 1
\* the largest limit passed to get_ranked_products
MaxLimit == 2
\* the inventory quantities the stock calculator is tried on are -1..MaxInventory
MaxInventory == 3
\* the low_stock_threshold values it is tried with are -1..MaxLowStockThreshold
MaxLowStockThreshold == 2
\* the order quantities the trending calculator is tried on are 0..MaxQuantity
MaxQuantity == 2
\* the trending_period_days values it is tried with are 0..MaxPeriod
MaxPeriod == 2
\* the trending_threshold values it is tried with are 1..MaxTrendingThreshold
MaxTrendingThreshold == 2

-----------------------------------------------------------------------------
(* Float arithmetic, as exact rationals *)

Abs(x) == IF x < 0 THEN -x ELSE x

RECURSIVE GCD(_, _)
GCD(a, b) == IF b = 0 THEN a ELSE GCD(b, a % b)

\* n / d for integers, d # 0
Rat(n, d) ==
    LET s == IF d < 0 THEN -1 ELSE 1
        g == GCD(Abs(n), Abs(d))
    IN  <<(s * n) \div g, (s * d) \div g>>

RInt(n) == <<n, 1>>

RAdd(a, b) ==
    LET g == GCD(a[2], b[2])
        l == (a[2] \div g) * b[2]
    IN  Rat(a[1] * (l \div a[2]) + b[1] * (l \div b[2]), l)

RNeg(a) == <<-a[1], a[2]>>

RSub(a, b) == RAdd(a, RNeg(b))

RMul(a, b) ==
    LET g1 == GCD(Abs(a[1]), b[2])
        g2 == GCD(Abs(b[1]), a[2])
    IN  Rat((a[1] \div g1) * (b[1] \div g2), (a[2] \div g2) * (b[2] \div g1))

\* a / b, b # 0
RDiv(a, b) == RMul(a, Rat(b[2], b[1]))

RLe(a, b) ==
    LET g == GCD(a[2], b[2])
    IN  a[1] * (b[2] \div g) <= b[1] * (a[2] \div g)

RLt(a, b) == RLe(a, b) /\ a # b

RMin(a, b) == IF RLe(a, b) THEN a ELSE b

\* floor of a rational
RFloor(a) == a[1] \div a[2]

-----------------------------------------------------------------------------
(* Constructor defaults *)

optimization_weights ==
    [conversion_rate |-> [bestseller_rank |-> Rat(4, 10),
                          trending_score  |-> Rat(3, 10),
                          atc_rate        |-> Rat(3, 10)],
     aov             |-> [price_percentile |-> Rat(5, 10),
                          margin           |-> Rat(3, 10),
                          historical_sales |-> Rat(2, 10)],
     sell_through    |-> [days_in_stock  |-> Rat(4, 10),
                          current_stock  |-> Rat(4, 10),
                          sales_velocity |-> Rat(2, 10)],
     traffic         |-> [view_count         |-> Rat(6, 10),
                          click_through_rate |-> Rat(25, 100),
                          time_on_page       |-> Rat(15, 100)]]

DefaultWeights ==
    [new_in |-> 5, bestseller |-> 10, slow_mover |-> 3, low_stock |-> 8,
     trending |-> 15, out_of_stock |-> -50, sale_item |-> -10]

DefaultConfig ==
    [new_product_days |-> 30, bestseller_percentage |-> 10,
     low_stock_threshold |-> 50, trending_period_days |-> 7,
     trending_threshold |-> 2, sale_discount_threshold |-> 15]

-----------------------------------------------------------------------------
(* pandas selections and aggregates *)

\* df[df['product_id'] == product_id]: the indices of the matching order lines
OrdersOf(orders, product_id) ==
    {i \in DOMAIN orders : orders[i].product_id = product_id}

\* rows['quantity'].sum()
RECURSIVE QuantitySum(_, _)
QuantitySum(orders, rows) ==
    IF rows = {} THEN 0
    ELSE LET i == CHOOSE j \in rows : TRUE
         IN  orders[i].quantity + QuantitySum(orders, rows \ {i})

\* products_df[products_df['id'] == product_id].iloc[0]
ProductById(products, product_id) ==
    products[CHOOSE i \in DOMAIN products :
                /\ products[i].id = product_id
                /\ \A j \in DOMAIN products : products[j].id = product_id => i <= j]

\* column.max() over a non-empty table
MaxOf(S) == CHOOSE m \in S : \A x \in S : x <= m

\* the values of a group-by aggregate, ascending
RECURSIVE SortedValues(_, _)
SortedValues(f, keys) ==
    IF keys = {} THEN <<>>
    ELSE LET k == CHOOSE x \in keys : \A y \in keys : f[x] <= f[y]
         IN  <<f[k]>> \o SortedValues(f, keys \ {k})

\* Series.quantile(q) with linear interpolation, over the ascending values s
Quantile(s, q) ==
    LET h    == RMul(q, RInt(Len(s) - 1))
        lo   == RFloor(h)
        frac == RSub(h, RInt(lo))
    IN  IF lo + 1 >= Len(s) THEN RInt(s[Len(s)])
        ELSE RAdd(RInt(s[lo + 1]), RMul(frac, RInt(s[lo + 2] - s[lo + 1])))

-----------------------------------------------------------------------------
(* Factor calculators *)

\* calculate_bestseller_score(product_id)
calculate_bestseller_score(product_id, orders, w, c) ==
    LET product_orders == OrdersOf(orders, product_id)
        total_sales    == QuantitySum(orders, product_orders)
        ids            == {orders[i].product_id : i \in DOMAIN orders}
        all_sales      == [k \in ids |-> QuantitySum(orders, OrdersOf(orders, k))]
        q              == RSub(RInt(1), Rat(c.bestseller_percentage, 100))
    IN  IF /\ product_orders # {}
           /\ RLe(Quantile(SortedValues(all_sales, ids), q), RInt(total_sales))
        THEN w.bestseller
        ELSE 0

\* the two tests in the other order: low stock shadows out of stock
calculate_stock_based_score_ignoring_priority(product, w, c) ==
    LET inventory == product.inventoryQuantity
    IN  IF inventory <= c.low_stock_threshold THEN w.low_stock
        ELSE IF inventory <= 0 THEN w.out_of_stock
        ELSE 0

\* calculate_stock_based_score(product)
calculate_stock_based_score(product, w, c) ==
    LET inventory == product.inventoryQuantity
    IN  IF inventory <= 0 THEN w.out_of_stock
        ELSE IF inventory <= c.low_stock_threshold THEN w.low_stock
        ELSE 0

\* without the elif branch: no previous sales is never trending
calculate_trending_score_without_new_activity(product_id, orders, w, c, current_time) ==
    LET trending_period == c.trending_period_days
        recent_orders   ==
            {i \in OrdersOf(orders, product_id) :
                orders[i].created_at > current_time - trending_period}
        previous_orders ==
            {i \in OrdersOf(orders, product_id) :
                /\ orders[i].created_at <= current_time - trending_period
                /\ orders[i].created_at > current_time - (trending_period * 2)}
        recent_sales    == QuantitySum(orders, recent_orders)
        previous_sales  == QuantitySum(orders, previous_orders)
    IN  IF /\ previous_sales > 0
           /\ RLe(RInt(c.trending_threshold), Rat(recent_sales, previous_sales))
        THEN w.trending
        ELSE 0

\* calculate_trending_score(product_id), with current_time the clock read at
\* its first line
calculate_trending_score(product_id, orders, w, c, current_time) ==
    LET trending_period == c.trending_period_days
        recent_orders   ==
            {i \in OrdersOf(orders, product_id) :
                orders[i].created_at > current_time - trending_period}
        previous_orders ==
            {i \in OrdersOf(orders, product_id) :
                /\ orders[i].created_at <= current_time - trending_period
                /\ orders[i].created_at > current_time - (trending_period * 2)}
        recent_sales    == QuantitySum(orders, recent_orders)
        previous_sales  == QuantitySum(orders, previous_orders)
    IN  IF previous_sales > 0
        THEN IF RLe(RInt(c.trending_threshold), Rat(recent_sales, previous_sales))
             THEN w.trending
             ELSE 0
        ELSE IF recent_sales > 0 THEN w.trending
        ELSE 0

-----------------------------------------------------------------------------
(* Business-optimization calculators.  Each has a "raises" predicate (the  *)
(* call ends in an exception) and a value, meaningful when it does not.    *)

\* ZeroDivisionError at line 165 or line 168
conversion_rate_raises(w) == w.bestseller = 0 \/ w.trending = 0

\* calculate_conversion_rate_score(product_id)
calculate_conversion_rate_score(product_id, products, orders, w, c, current_time) ==
    LET bestseller_rank ==
            Rat(calculate_bestseller_score(product_id, orders, w, c), w.bestseller)
        trending_score  ==
            Rat(calculate_trending_score(product_id, orders, w, c, current_time),
                w.trending)
        product_views   == ProductById(products, product_id).viewCount
        product_orders  == Cardinality(OrdersOf(orders, product_id))
        atc_rate        ==
            Rat(product_orders, IF product_views > 1 THEN product_views ELSE 1)
        ow              == optimization_weights.conversion_rate
    IN  RAdd(RAdd(RMul(ow.bestseller_rank, bestseller_rank),
                  RMul(ow.trending_score, trending_score)),
             RMul(ow.atc_rate, atc_rate))

\* calculate_aov_score(product_id)
calculate_aov_score(product_id, products, orders) ==
    LET product    == ProductById(products, product_id)
        price      == product.price
        all_prices == {i \in DOMAIN products : products[i].price <= price}
        price_percentile == Rat(Cardinality(all_prices), Len(products))
        compare_price ==
            IF product.compareAtPrice # 0 THEN product.compareAtPrice ELSE price
        margin     ==
            IF compare_price > price
            THEN Rat(compare_price - price, compare_price)
            ELSE Rat(1, 2)
        historical_sales ==
            QuantitySum(orders, OrdersOf(orders, product_id)) * price
        max_historical_sales ==
            QuantitySum(orders, DOMAIN orders)
                * MaxOf({products[i].price : i \in DOMAIN products})
        historical_sales_normalized ==
            IF max_historical_sales > 0
            THEN Rat(historical_sales, max_historical_sales)
            ELSE RInt(0)
        ow         == optimization_weights.aov
    IN  RAdd(RAdd(RMul(ow.price_percentile, price_percentile),
                  RMul(ow.margin, margin)),
             RMul(ow.historical_sales, historical_sales_normalized))

\* TypeError at line 215: tz_convert of a timestamp without a timezone
sell_through_raises(product_id, products) ==
    ~ ProductById(products, product_id).createdAt.tz

\* calculate_sell_through_score(product_id); age_time and window_time are the
\* clock reads of lines 216 and 227
calculate_sell_through_score(product_id, products, orders, age_time, window_time) ==
    LET product         == ProductById(products, product_id)
        days_in_stock   == age_time - product.createdAt.day
        days_normalized == RMin(Rat(days_in_stock, 365), RInt(1))
        current_stock   == product.inventoryQuantity
        max_stock       ==
            MaxOf({products[i].inventoryQuantity : i \in DOMAIN products})
        stock_level_normalized ==
            RSub(RInt(1),
                 IF max_stock > 0 THEN Rat(current_stock, max_stock) ELSE RInt(0))
        recent_orders   ==
            {i \in OrdersOf(orders, product_id) :
                orders[i].created_at > window_time - 30}
        sales_velocity  == Rat(Cardinality(recent_orders), 30)
        sizes           ==
            {Cardinality(OrdersOf(orders, orders[i].product_id)) : i \in DOMAIN orders}
        velocity_normalized ==
            IF sizes # {}
            THEN RDiv(sales_velocity, Rat(MaxOf(sizes), 30))
            ELSE RInt(0)
        ow              == optimization_weights.sell_through
    IN  RAdd(RAdd(RMul(ow.days_in_stock, days_normalized),
                  RMul(ow.current_stock, stock_level_normalized)),
             RMul(ow.sales_velocity, velocity_normalized))

\* calculate_traffic_score(product_id)
calculate_traffic_score(product_id, products) ==
    LET product    == ProductById(products, product_id)
        view_count == product.viewCount
        max_views  == MaxOf({products[i].viewCount : i \in DOMAIN products})
        view_score == IF max_views > 0 THEN Rat(view_count, max_views) ELSE RInt(0)
        clicks     == product.clicks
        ctr        == Rat(clicks, IF view_count > 1 THEN view_count ELSE 1)
        time_on_page == product.averageTimeOnPage
        max_time   == MaxOf({products[i].averageTimeOnPage : i \in DOMAIN products})
        time_score == IF max_time > 0 THEN Rat(time_on_page, max_time) ELSE RInt(0)
        ow         == optimization_weights.traffic
    IN  RAdd(RAdd(RMul(ow.view_count, view_score),
                  RMul(ow.click_through_rate, ctr)),
             RMul(ow.time_on_page, time_score))

\* The four clock reads of one calculate_ranking_score call, in the order the
\* code makes them: lines 132, 216, 227 and 283.
ReadsPerProduct == 4

ranking_score_raises(product, products, w) ==
    conversion_rate_raises(w) \/ sell_through_raises(product.id, products)

\* an entry whose total adds the legacy stock factor to the average
ranking_entry_with_stock_factor(product, products, orders, w, c, r) ==
    LET product_id         == product.id
        conversion_score   ==
            calculate_conversion_rate_score(product_id, products, orders, w, c, r[1])
        aov_score          == calculate_aov_score(product_id, products, orders)
        sell_through_score ==
            calculate_sell_through_score(product_id, products, orders, r[2], r[3])
        traffic_score      == calculate_traffic_score(product_id, products)
        total_score        ==
            RAdd(RDiv(RAdd(RAdd(conversion_score, aov_score),
                           RAdd(sell_through_score, traffic_score)),
                      RInt(4)),
                 RInt(calculate_stock_based_score(product, w, c)))
    IN  [score      |-> total_score,
         updated_at |-> r[4],
         title      |-> product.title,
         vendor     |-> product.vendor,
         optimization_scores |->
             [conversion_rate |-> conversion_score,
              aov             |-> aov_score,
              sell_through    |-> sell_through_score,
              traffic         |-> traffic_score]]

\* The entry calculate_ranking_score(product) stores under product['id'];
\* r is the sequence of its four clock reads.
ranking_entry(product, products, orders, w, c, r) ==
    LET product_id         == product.id
        conversion_score   ==
            calculate_conversion_rate_score(product_id, products, orders, w, c, r[1])
        aov_score          == calculate_aov_score(product_id, products, orders)
        sell_through_score ==
            calculate_sell_through_score(product_id, products, orders, r[2], r[3])
        traffic_score      == calculate_traffic_score(product_id, products)
        total_score        ==
            RDiv(RAdd(RAdd(conversion_score, aov_score),
                      RAdd(sell_through_score, traffic_score)),
                 RInt(4))
    IN  [score      |-> total_score,
         updated_at |-> r[4],
         title      |-> product.title,
         vendor     |-> product.vendor,
         optimization_scores |->
             [conversion_rate |-> conversion_score,
              aov             |-> aov_score,
              sell_through    |-> sell_through_score,
              traffic         |-> traffic_score]]

\* an entry merged into the one already stored instead of replacing it
DictSetAccumulating(d, key, entry) ==
    [k \in DOMAIN d \cup {key} |->
        IF k # key THEN d[k]
        ELSE IF key \in DOMAIN d
             THEN [entry EXCEPT !.score = RAdd(@, d[key].score)]
             ELSE entry]

\* ranking_scores[key] = entry
DictSet(d, key, entry) ==
    [k \in DOMAIN d \cup {key} |-> IF k = key THEN entry ELSE d[k]]

\* the iterrows index of row i, a key that is no product identifier
entry_key_row_index(products, i) == i - 1

\* product_id = product['id'], the key calculate_ranking_score stores under
entry_key(products, i) == products[i].id

\* The loop of update_all_rankings from row i on; reads holds the clock
\* reads of the whole pass, ReadsPerProduct for each row.  An exception in
\* calculate_ranking_score leaves the loop and the method.
RECURSIVE update_all_rankings(_, _, _, _, _, _, _)
update_all_rankings(scores, i, products, orders, w, c, reads) ==
    IF i > Len(products) THEN [scores |-> scores, raised |-> FALSE]
    ELSE IF ranking_score_raises(products[i], products, w)
         THEN [scores |-> scores, raised |-> TRUE]
         ELSE update_all_rankings(
                  DictSet(scores, entry_key(products, i),
                          ranking_entry(products[i], products, orders, w, c,
                                        SubSeq(reads, ReadsPerProduct * (i - 1) + 1,
                                               ReadsPerProduct * i))),
                  i + 1, products, orders, w, c, reads)

-----------------------------------------------------------------------------
(* Queries *)

\* sorted(items, key=score, reverse=True) of the items from position i on:
\* a stable insertion of items[i] in front of the first smaller score
RECURSIVE SortedByScore(_, _)
SortedByScore(items, i) ==
    IF i > Len(items) THEN <<>>
    ELSE LET rest == SortedByScore(items, i + 1)
             ahead == {k \in 0..Len(rest) :
                          \A j \in 1..k : RLt(items[i][2].score, rest[j][2].score)}
             n    == MaxOf(ahead)
         IN  SubSeq(rest, 1, n) \o <<items[i]>> \o SubSeq(rest, n + 1, Len(rest))

\* ranking_scores.items(): the keys in insertion order, which is row order
RECURSIVE DictItems(_, _, _)
DictItems(scores, products, i) ==
    IF i > Len(products) THEN <<>>
    ELSE (IF /\ products[i].id \in DOMAIN scores
             /\ \A j \in 1..(i - 1) : products[j].id # products[i].id
          THEN <<<<products[i].id, scores[products[i].id]>>>>
          ELSE <<>>)
         \o DictItems(scores, products, i + 1)

\* [p for p in seq if <condition on p>] from position i on, kept being the
\* product ids whose item satisfies the condition
RECURSIVE Filter(_, _, _)
Filter(seq, kept, i) ==
    IF i > Len(seq) THEN <<>>
    ELSE (IF seq[i][1] \in kept THEN <<seq[i]>> ELSE <<>>) \o Filter(seq, kept, i + 1)

\* Python truthiness of an optional number: None and 0 are false
TruthyNumber(opt) == opt # <<>> /\ opt[1] # 0

\* Python truthiness of an optional string: None and '' are false
TruthyString(opt) == opt # <<>> /\ opt[1] # ""

\* ranked_products[:limit] for limit >= 0
Truncate(seq, n) == SubSeq(seq, 1, IF n < Len(seq) THEN n ELSE Len(seq))

\* get_ranked_products(limit, category, vendor)
get_ranked_products(scores, products, limit, category, vendor) ==
    LET ranked     == SortedByScore(DictItems(scores, products, 1), 1)
        in_category ==
            {k \in DOMAIN scores : ProductById(products, k).productType = category[1]}
        of_vendor   == {k \in DOMAIN scores : scores[k].vendor = vendor[1]}
        by_category == IF TruthyString(category) THEN Filter(ranked, in_category, 1)
                       ELSE ranked
        by_vendor   == IF TruthyString(vendor) THEN Filter(by_category, of_vendor, 1)
                       ELSE by_category
    IN  IF TruthyNumber(limit) THEN Truncate(by_vendor, limit[1]) ELSE by_vendor

-----------------------------------------------------------------------------
(* Updates *)

\* a merge in which the values already there win
DictUpdateKeepingOld(old, new) ==
    [k \in DOMAIN old \cup DOMAIN new |-> IF k \in DOMAIN old THEN old[k] ELSE new[k]]

\* dict.update(new): the keys of new take their new values, the others stay
DictUpdate(old, new) ==
    [k \in DOMAIN old \cup DOMAIN new |-> IF k \in DOMAIN new THEN new[k] ELSE old[k]]

-----------------------------------------------------------------------------
(* The data the system is constructed with *)

ClockStart == 400

Row(id, title, vendor, productType, day, inventory, price, compareAt, viewCount, clicks, time) ==
    [id |-> id, title |-> title, vendor |-> vendor, productType |-> productType,
     createdAt |-> [tz |-> TRUE, day |-> day], inventoryQuantity |-> inventory,
     price |-> price, compareAtPrice |-> compareAt, viewCount |-> viewCount,
     clicks |-> clicks, averageTimeOnPage |-> time]

Runner == Row(101, "Runner", "Acme", "Shoes", 0,   0,  20, 25, 4, 2, 3)
Cap    == Row(102, "Cap",    "Acme", "Hats",  395, 5,  10, 0,  2, 1, 6)
Boot   == Row(103, "Boot",   "Bolt", "Shoes", 380, 60, 20, 20, 0, 0, 0)

\* rows with the createdAt of the rows in naive read without a timezone
ProductTable(rows, naive) ==
    [i \in DOMAIN rows |->
        IF i \in naive THEN [rows[i] EXCEPT !.createdAt.tz = FALSE] ELSE rows[i]]

Order(product_id, quantity, created_at) ==
    [product_id |-> product_id, quantity |-> quantity, created_at |-> created_at]

Orders ==
    << Order(101, 2, 399), Order(101, 2, 392), Order(102, 3, 394),
       Order(102, 1, 371), Order(103, 1, 300), Order(999, 4, 398) >>

\* the total score stored for each product
TotalScores(scores) == [k \in DOMAIN scores |-> scores[k].score]

NoCall ==
    [op |-> "__init__", arg |-> <<>>, reads |-> <<>>, raised |-> FALSE,
     ret |-> <<>>,
     before |-> [op |-> "", instants |-> {}, weights |-> DefaultWeights,
                 config |-> DefaultConfig, scores |-> <<>>]]

\* the instants a sequence of clock reads returned
Instants(reads) == {reads[i] : i \in DOMAIN reads}

\* what a call finds: the call before it and the instants its clock reads
\* returned, the weights, the config and the stored total scores
Before ==
    [op |-> last.op, instants |-> Instants(last.reads), weights |-> weights,
     config |-> config, scores |-> TotalScores(ranking_scores)]

\* __init__(products_file, orders_file) on one of the given tables
Constructed(productTables, orderTables) ==
    /\ products_df \in productTables
    /\ orders_df \in orderTables
    /\ weights = DefaultWeights
    /\ config = DefaultConfig
    /\ ranking_scores = <<>>
    /\ clock = ClockStart
    /\ last = NoCall

Init ==
    Constructed({ProductTable(<<Runner, Cap>>, naive) : naive \in {{}, {1}}},
                {Orders})

-----------------------------------------------------------------------------
(* The clock *)

\* the non-decreasing sequences of n clock reads within lo..hi
RECURSIVE ClockReads(_, _, _)
ClockReads(n, lo, hi) ==
    IF n = 0 THEN {<<>>}
    ELSE UNION {{<<t>> \o r : r \in ClockReads(n - 1, t, hi)} : t \in lo..hi}

ClockEnd == ClockStart + MaxClockAdvance

\* the reads of one update_all_rankings pass that starts now or later
PassReads == ClockReads(ReadsPerProduct * Len(products_df), clock, ClockEnd)

\* the reads of a pass during which the clock stands still
FrozenReads == {[i \in 1..(ReadsPerProduct * Len(products_df)) |-> clock]}

-----------------------------------------------------------------------------
(* The calls.  Each takes the set its inputs are drawn from. *)

UpdateAllRankings(readings) ==
    \E reads \in readings :
        LET r == update_all_rankings(ranking_scores, 1, products_df, orders_df,
                                     weights, config, reads)
        IN  /\ ranking_scores' = r.scores
            /\ clock' = reads[Len(reads)]
            /\ last' = [op |-> "update_all_rankings", arg |-> <<>>, before |-> Before,
                        reads |-> reads, raised |-> r.raised, ret |-> <<>>]
            /\ UNCHANGED <<products_df, orders_df, weights, config>>

UpdateWeights(patches, readings) ==
    \E new \in patches, reads \in readings :
        LET w == DictUpdate(weights, new)
            r == update_all_rankings(ranking_scores, 1, products_df, orders_df,
                                     w, config, reads)
        IN  /\ weights' = w
            /\ ranking_scores' = r.scores
            /\ clock' = reads[Len(reads)]
            /\ last' = [op |-> "update_weights", arg |-> new, before |-> Before,
                        reads |-> reads, raised |-> r.raised, ret |-> <<>>]
            /\ UNCHANGED <<products_df, orders_df, config>>

UpdateConfig(patches, readings) ==
    \E new \in patches, reads \in readings :
        LET c == DictUpdate(config, new)
            r == update_all_rankings(ranking_scores, 1, products_df, orders_df,
                                     weights, c, reads)
        IN  /\ config' = c
            /\ ranking_scores' = r.scores
            /\ clock' = reads[Len(reads)]
            /\ last' = [op |-> "update_config", arg |-> new, before |-> Before,
                        reads |-> reads, raised |-> r.raised, ret |-> <<>>]
            /\ UNCHANGED <<products_df, orders_df, weights>>

GetRankedProducts(limits, categories, vendors) ==
    \E limit \in limits, category \in categories, vendor \in vendors :
        /\ last' = [op |-> "get_ranked_products",
                    arg |-> [limit |-> limit, category |-> category, vendor |-> vendor],
                    before |-> Before, reads |-> <<>>, raised |-> FALSE,
                    ret |-> get_ranked_products(ranking_scores, products_df,
                                                limit, category, vendor)]
        /\ UNCHANGED <<products_df, orders_df, weights, config, ranking_scores, clock>>

-----------------------------------------------------------------------------
(* Spec: the engine under updates, with a clock that advances while a pass *)
(* runs.  get_ranked_products is called without arguments, as main() of    *)
(* example_usage.py calls it.                                              *)

\* low_stock raised by up to MaxDelta, or trending set to 0
WeightPatches ==
    {("low_stock" :> weights.low_stock + delta) :
        delta \in {d \in 1..MaxDelta :
                      weights.low_stock + d <= DefaultWeights.low_stock + MaxRaise}}
    \cup {("trending" :> 0)}

ConfigPatches ==
    {("trending_threshold" :> 1 @@ "bestseller_percentage" :> 50)}

Next ==
    \/ UpdateAllRankings(PassReads)
    \/ UpdateWeights(WeightPatches, PassReads)
    \/ UpdateConfig(ConfigPatches, PassReads)
    \/ GetRankedProducts({<<>>}, {<<>>}, {<<>>})

Spec == Init /\ [][Next]_vars

-----------------------------------------------------------------------------
(* SpecQuery: get_ranked_products with every argument, over the scores of  *)
(* three products; the clock stands still.                                 *)

Limits == {<<>>} \cup {<<n>> : n \in 0..MaxLimit}

Categories == {<<>>, <<"">>, <<"Shoes">>, <<"Toys">>}

Vendors == {<<>>, <<"">>, <<"Acme">>, <<"Nobody">>}

InitQuery ==
    Constructed({ProductTable(<<Runner, Cap, Boot>>, naive) : naive \in {{}, {3}}},
                {Orders, <<>>})

NextQuery ==
    \/ UpdateAllRankings(FrozenReads)
    \/ UpdateConfig(ConfigPatches, FrozenReads)
    \/ GetRankedProducts(Limits, Categories, Vendors)

SpecQuery == InitQuery /\ [][NextQuery]_vars

-----------------------------------------------------------------------------
(* SpecFactors: the factor calculators as pure functions of their inputs   *)

CalculateStockBasedScore ==
    \E i \in DOMAIN products_df :
        /\ last' = [op |-> "calculate_stock_based_score", arg |-> products_df[i],
                    before |-> Before, reads |-> <<>>, raised |-> FALSE,
                    ret |-> calculate_stock_based_score(products_df[i], weights, config)]
        /\ UNCHANGED <<products_df, orders_df, weights, config, ranking_scores, clock>>

CalculateTrendingScore ==
    \E i \in DOMAIN orders_df, reads \in ClockReads(1, clock, ClockEnd) :
        /\ last' = [op |-> "calculate_trending_score",
                    arg |-> orders_df[i].product_id,
                    before |-> Before, reads |-> reads, raised |-> FALSE,
                    ret |-> calculate_trending_score(orders_df[i].product_id,
                                orders_df, weights, config, reads[1])]
        /\ clock' = reads[1]
        /\ UNCHANGED <<products_df, orders_df, weights, config, ranking_scores>>

\* products of every inventory, under every threshold and two sets of weights
StockInputs ==
    /\ \E row \in {Runner, Cap, Boot}, inventory \in -1..MaxInventory :
          products_df = <<[row EXCEPT !.inventoryQuantity = inventory]>>
    /\ orders_df = Orders
    /\ weights \in {DefaultWeights, [DefaultWeights EXCEPT !.low_stock = 0]}
    /\ \E threshold \in -1..MaxLowStockThreshold :
          config = [DefaultConfig EXCEPT !.low_stock_threshold = threshold]

\* two orders of one product and one of another, none later than the clock's
\* first reading, under every period and threshold
TrendingInputs ==
    /\ products_df = <<Runner, Cap>>
    /\ \E period \in 0..MaxPeriod, threshold \in 1..MaxTrendingThreshold :
          /\ config = [DefaultConfig EXCEPT !.trending_period_days = period,
                                            !.trending_threshold = threshold]
          /\ \E t1, t2 \in (ClockStart - 2 * period - 1)..ClockStart,
                q1, q2 \in 0..MaxQuantity :
                orders_df = <<Order(101, q1, t1), Order(101, q2, t2),
                              Order(999, 1, ClockStart)>>
    /\ weights = DefaultWeights

InitFactors ==
    /\ StockInputs \/ TrendingInputs
    /\ ranking_scores = <<>>
    /\ clock = ClockStart
    /\ last = NoCall

NextFactors ==
    \/ CalculateStockBasedScore
    \/ CalculateTrendingScore

SpecFactors == InitFactors /\ [][NextFactors]_vars

-----------------------------------------------------------------------------
(* Properties *)

PassCalls == {"update_all_rankings", "update_weights", "update_config"}

\* the clock reads the last pass made for row i
ReadsOf(i) ==
    SubSeq(last.reads, ReadsPerProduct * (i - 1) + 1, ReadsPerProduct * i)

\* row i has the entry the last pass computes for it under the current
\* weights and config
Recomputed(i) ==
    /\ products_df[i].id \in DOMAIN ranking_scores
    /\ ranking_scores[products_df[i].id] =
          ranking_entry(products_df[i], products_df, orders_df, weights, config,
                        ReadsOf(i))

\* every clock read of the last call and of the call before it returned one
\* and the same instant
ClockStoodStill ==
    /\ Cardinality(Instants(last.reads)) = 1
    /\ last.before.instants = Instants(last.reads)

ProductIds == {products_df[i].id : i \in DOMAIN products_df}

\* C1: in every reachable state, every key of ranking_scores is the
\* identifier of some row of the product table.
C1_KeysAreProductIds ==
    \A k \in DOMAIN ranking_scores : k \in ProductIds

\* C1 witness: all four kinds of call were made and scores are stored
C1_Witness ==
    /\ DOMAIN ranking_scores = ProductIds
    /\ weights # DefaultWeights
    /\ config # DefaultConfig
    /\ last.op = "get_ranked_products"
    /\ last.before.op = "update_all_rankings"

\* C2: after update_weights(new) or update_config(new) returns, every key
\* of new has its new value, every other key has the value it had before the
\* call, and every product has an entry computed under the updated weights
\* and config.
C2_MergePatchThenRecompute ==
    (last.op \in {"update_weights", "update_config"} /\ ~ last.raised) =>
        LET now == IF last.op = "update_weights" THEN weights ELSE config
            was == IF last.op = "update_weights" THEN last.before.weights
                   ELSE last.before.config
        IN  /\ DOMAIN now = DOMAIN was \cup DOMAIN last.arg
            /\ \A k \in DOMAIN last.arg : now[k] = last.arg[k]
            /\ \A k \in DOMAIN was \ DOMAIN last.arg : now[k] = was[k]
            /\ IF last.op = "update_weights" THEN config = last.before.config
               ELSE weights = last.before.weights
            /\ \A i \in DOMAIN products_df : Recomputed(i)

\* C2 witness: update_config returned after an earlier update_weights, and
\* the recomputation changed a stored score
C2_Witness ==
    /\ last.op = "update_config"
    /\ ~ last.raised
    /\ weights.low_stock # DefaultWeights.low_stock
    /\ ClockStoodStill
    /\ \E k \in DOMAIN last.before.scores :
          ranking_scores[k].score # last.before.scores[k]

\* C3: for a non-negative limit n get_ranked_products returns at most n
\* entries, and with or without a limit the entries are in non-increasing
\* order of total score.
C3_AtMostLimitAndSorted ==
    last.op = "get_ranked_products" =>
        /\ last.arg.limit # <<>> => Len(last.ret) <= last.arg.limit[1]
        /\ \A j \in 1..(Len(last.ret) - 1) :
              RLe(last.ret[j + 1][2].score, last.ret[j][2].score)

\* What does hold of the limit: a limit n >= 1 bounds the result by n, and
\* the limits None and 0 both leave it whole.
PositiveLimitBoundsResult ==
    last.op = "get_ranked_products" =>
        LET whole == get_ranked_products(ranking_scores, products_df, <<>>,
                                         last.arg.category, last.arg.vendor)
        IN  IF last.arg.limit # <<>> /\ last.arg.limit[1] >= 1
            THEN /\ Len(last.ret) <= last.arg.limit[1]
                 /\ last.ret = SubSeq(whole, 1, Len(last.ret))
            ELSE last.ret = whole

\* the stored products of a category, and of a vendor
StoredOfCategory(c) ==
    {k \in DOMAIN ranking_scores : ProductById(products_df, k).productType = c}

StoredOfVendor(v) ==
    {k \in DOMAIN ranking_scores : ProductById(products_df, k).vendor = v}

\* the last call returned the stored entries of exactly the products ids,
\* each once
ReturnsExactly(ids) ==
    /\ {last.ret[j][1] : j \in DOMAIN last.ret} = ids
    /\ \A j \in DOMAIN last.ret : last.ret[j][2] = ranking_scores[last.ret[j][1]]
    /\ \A j, k \in DOMAIN last.ret : last.ret[j][1] = last.ret[k][1] => j = k

\* C4: get_ranked_products(category=c) returns exactly the stored entries
\* whose product's productType equals c, and get_ranked_products(vendor=v)
\* exactly those whose vendor equals v; a category or vendor that matches no
\* product gives the empty list.
C4_FiltersAreExact ==
    (last.op = "get_ranked_products" /\ last.arg.limit = <<>>) =>
        /\ (last.arg.category # <<>> /\ last.arg.vendor = <<>>)
               => ReturnsExactly(StoredOfCategory(last.arg.category[1]))
        /\ (last.arg.vendor # <<>> /\ last.arg.category = <<>>)
               => ReturnsExactly(StoredOfVendor(last.arg.vendor[1]))

\* What does hold of the filters: a non-empty category or vendor selects
\* exactly the entries that match it, and '' selects like None.
NonEmptyFilterIsExact ==
    (last.op = "get_ranked_products" /\ last.arg.limit = <<>>) =>
        /\ last.arg.vendor = <<>> =>
              IF last.arg.category \notin {<<>>, <<"">>}
              THEN ReturnsExactly(StoredOfCategory(last.arg.category[1]))
              ELSE ReturnsExactly(DOMAIN ranking_scores)
        /\ last.arg.category = <<>> =>
              IF last.arg.vendor \notin {<<>>, <<"">>}
              THEN ReturnsExactly(StoredOfVendor(last.arg.vendor[1]))
              ELSE ReturnsExactly(DOMAIN ranking_scores)

\* C5, as claimed: update_all_rankings run twice in a row, with tables,
\* weights and config unchanged, leaves every product with the same total
\* score after the second run as after the first.
C5_RecomputationIdempotent ==
    (last.op = "update_all_rankings" /\ last.before.op = "update_all_rankings")
        => TotalScores(ranking_scores) = last.before.scores

\* C5, amended: the same, when in addition every clock read of the two runs
\* returns the same instant.
C5_IdempotentWhileClockStandsStill ==
    (/\ last.op = "update_all_rankings"
     /\ last.before.op = "update_all_rankings"
     /\ ClockStoodStill)
        => TotalScores(ranking_scores) = last.before.scores

\* C5 witness: a second run at the instant of the first, with scores stored
C5_Witness ==
    /\ last.op = "update_all_rankings"
    /\ last.before.op = "update_all_rankings"
    /\ ClockStoodStill
    /\ ~ last.raised
    /\ DOMAIN ranking_scores = ProductIds
    /\ TotalScores(ranking_scores) = last.before.scores

\* the last call was update_weights({'low_stock': w}) with w above the
\* low_stock weight of before
LowStockRaised ==
    /\ last.op = "update_weights"
    /\ DOMAIN last.arg = {"low_stock"}
    /\ last.arg.low_stock > last.before.weights.low_stock

RaisedBy == last.arg.low_stock - last.before.weights.low_stock

IsLowStock(product) ==
    /\ 0 < product.inventoryQuantity
    /\ product.inventoryQuantity <= config.low_stock_threshold

\* C6, as claimed: raising low_stock by delta through update_weights raises
\* the stored total score of every low-stock product by exactly delta and
\* leaves the stored total score of every other product unchanged.
C6_LowStockRaiseShiftsScores ==
    LowStockRaised =>
        \A i \in DOMAIN products_df :
            LET id == products_df[i].id
            IN  (id \in DOMAIN ranking_scores /\ id \in DOMAIN last.before.scores) =>
                    ranking_scores[id].score =
                        RAdd(last.before.scores[id],
                             RInt(IF IsLowStock(products_df[i]) THEN RaisedBy ELSE 0))

\* C6, amended: raising low_stock by delta raises the stock factor
\* (calculate_stock_based_score) of every low-stock product by exactly delta
\* and leaves the stock factor of every other product unchanged; the stored
\* entries are the ones the same pass stores under the weights of before,
\* and the stored total scores are those of before when the clock reads are.
C6_LowStockRaiseLeavesScores ==
    LowStockRaised =>
        \A i \in DOMAIN products_df :
            LET product == products_df[i]
                id      == product.id
            IN  /\ calculate_stock_based_score(product, weights, config) =
                      calculate_stock_based_score(product, last.before.weights, config)
                          + (IF IsLowStock(product) THEN RaisedBy ELSE 0)
                /\ ~ last.raised =>
                      /\ id \in DOMAIN ranking_scores
                      /\ ranking_scores[id] =
                            ranking_entry(product, products_df, orders_df,
                                          last.before.weights, config, ReadsOf(i))
                /\ (ClockStoodStill /\ id \in DOMAIN last.before.scores) =>
                      /\ id \in DOMAIN ranking_scores
                      /\ ranking_scores[id].score = last.before.scores[id]

\* C6 witness: low_stock was raised while the clock stood still, with a
\* low-stock product and another product both scored before and after
C6_Witness ==
    /\ LowStockRaised
    /\ ~ last.raised
    /\ ClockStoodStill
    /\ DOMAIN last.before.scores = ProductIds
    /\ \E i, j \in DOMAIN products_df :
          IsLowStock(products_df[i]) /\ ~ IsLowStock(products_df[j])

\* C7: when the score computation of a product faults during a pass, the
\* pass does not abort and every other product gets its entry computed and
\* stored.
C7_FaultsAreIsolated ==
    last.op \in PassCalls =>
        /\ ~ last.raised
        /\ \A i \in DOMAIN products_df :
              ~ ranking_score_raises(products_df[i], products_df, weights)
                  => Recomputed(i)

\* C8: calculate_stock_based_score returns the out_of_stock weight when
\* inventory <= 0, whatever the other fields and the config, the low_stock
\* weight when 0 < inventory <= low_stock_threshold, and 0 otherwise.
C8_StockScoreCases ==
    last.op = "calculate_stock_based_score" =>
        LET inventory == last.arg.inventoryQuantity
            threshold == config.low_stock_threshold
        IN  /\ inventory <= 0 => last.ret = weights.out_of_stock
            /\ (0 < inventory /\ inventory <= threshold)
                   => last.ret = weights.low_stock
            /\ (0 < inventory /\ threshold < inventory) => last.ret = 0

\* C8 witness: a product that is out of stock and within the low-stock
\* threshold got the out_of_stock weight
C8_Witness ==
    /\ last.op = "calculate_stock_based_score"
    /\ last.arg.inventoryQuantity <= 0
    /\ last.arg.inventoryQuantity <= config.low_stock_threshold
    /\ weights.low_stock # weights.out_of_stock
    /\ last.ret = weights.out_of_stock

\* the quantity sold of product_id in the window of the given length that
\* ends at the instant end: end - length < created_at <= end
WindowSales(product_id, end, length) ==
    QuantitySum(orders_df,
                {i \in DOMAIN orders_df :
                    /\ orders_df[i].product_id = product_id
                    /\ end - length < orders_df[i].created_at
                    /\ orders_df[i].created_at <= end})

RecentSales ==
    WindowSales(last.arg, last.reads[1], config.trending_period_days)

PreviousSales ==
    WindowSales(last.arg, last.reads[1] - config.trending_period_days,
                config.trending_period_days)

C10_OneNowPerPass ==
    (last.op \in PassCalls /\ ~ last.raised) =>
        \E t \in ClockStart..ClockEnd :
            \A i \in DOMAIN products_df :
                /\ products_df[i].id \in DOMAIN ranking_scores
                /\ ranking_scores[products_df[i].id] =
                      ranking_entry(products_df[i], products_df, orders_df,
                                    weights, config, <<t, t, t, t>>)

====
